---- MODULE Spec2Model ----
(***************************************************************************)
(* Model of the segmentation and subtitle engine of the sixty video        *)
(* processor (src/services/video_processor.py).                            *)
(*                                                                         *)
(* Times are fixed-point: one unit is one millisecond, so 30 s is 30000.   *)
(* Python's float divisions become integer divisions on milliseconds.      *)
(* Python's module-level pseudo-random generator is a state machine over   *)
(* 0 .. RngMod-1: random.seed sets the state from the seed alone and every *)
(* draw advances it, so a draw sequence is a function of the seed.         *)
(***************************************************************************)
EXTENDS Integers, Sequences, FiniteSets, TLC

VARIABLES
    rng,            \* state of the process-wide generator of module random
    gen_in,         \* SpecGen: arguments of the last generate_varied_start_points call
    gen_out,        \* SpecGen: what that call returned
    gen_prev,       \* SpecGen: what the call before it returned for the same arguments
    gen_disturbed,  \* SpecGen: another caller drew from the generator since the last call
    src_duration,   \* duration of the source video, as probed (ms)
    target_length,       \* target clip length given to process_video (ms)
    self_processing_count, \* self.self_processing_count, read when the processor was built
    pc,             \* position of the run, from "ready" to "returned"
    n_cuts,       \* create_cuts: the clip count chosen
    plan_points,   \* create_cuts: the generated start points
    idx,            \* create_cuts: the loop variable i
    self_cut_start_times, \* self._cut_start_times, a set of <<cut_id, start_time>>
    handed,         \* windows handed to create_simple_cut, in order
    cuts,           \* create_cuts: the list of emitted clips
    failures,       \* collaborator failures so far in this run
    sub_in,         \* SpecSub: arguments of the create_subtitles call
    sub_out,        \* SpecSub: what the call wrote
    fmt_in,         \* SpecFmt: the time given to format_srt_time (ms)
    fmt_out,        \* SpecFmt: the string it returned
    txt_call,       \* SpecText: the text function called, "none" before the choice
    txt_in,         \* SpecText: its argument, a text or a list of words
    txt_out,        \* SpecText: what it returned
    txt_done,       \* SpecText: the call has returned
    counter_file,   \* SpecStore: processing_counters.json, the count of each video
    file_init,      \* SpecStore: what the file held before the runs
    file_truncated, \* SpecStore: the file is open for writing and still empty
    worker_pc,      \* SpecStore: position of each worker's run
    worker_video,   \* SpecStore: the video each worker processes
    worker_count,   \* SpecStore: self.processing_count of each worker's processor
    loaded_counters, \* SpecStore: the dict each worker loaded in _increment_processing_count
    clip_start,     \* SpecTrip: start_time of the clip, in the source (ms)
    local_segments, \* SpecTrip: the segments speech-to-text gave for the clip's extract
    probe,          \* SpecProbe: what probing the clip file does in create_subtitles
    counters,       \* stored processing count of the video in each project folder's counter file
    folder,         \* the processor's output_folder
    returned,       \* what process_video returned: "none", "success", "failure"
    error,          \* the step whose exception process_video caught, or "none"
    ai_reply,       \* analyze_content: "none", "skipped", "json", "not_json", "raises"
    segment_stt_failed, \* transcribe_segment fell back to its placeholder for an emitted clip
    counter_error,  \* _increment_processing_count ended in its except clause
    prev_upload     \* count read by the previous upload of the source if it succeeded, else -1

genvars == <<gen_in, gen_out, gen_prev, gen_disturbed>>
runvars == <<src_duration, target_length, self_processing_count, pc, n_cuts, plan_points, idx,
             self_cut_start_times, handed, cuts, failures>>
subvars == <<sub_in, sub_out>>
fmtvars == <<fmt_in, fmt_out>>
txtvars == <<txt_call, txt_in, txt_out, txt_done>>
storevars == <<counter_file, file_init, file_truncated, worker_pc, worker_video, worker_count,
               loaded_counters>>
tripvars == <<clip_start, local_segments>>
sidevars == <<fmtvars, txtvars, storevars, tripvars, probe>>
procvars == <<counters, folder, returned, error, ai_reply, segment_stt_failed, counter_error,
              prev_upload>>
vars == <<rng, genvars, runvars, subvars, sidevars, procvars>>

----------------------------------------------------------------------------
(* Bounds of the model *)

\* size of the generator's state space; a draw is one of RngMod values
RngMod == 16
\* processing counts 0 .. MaxCount are explored
MaxCount == 2
\* at most MaxFailures collaborator calls fail in one run
MaxFailures == 2
\* uploads of the same source that are followed
MaxRuns == 2

Sec(x) == x * 1000

Min(a, b) == IF a <= b THEN a ELSE b
Max(a, b) == IF a >= b THEN a ELSE b
Abs(a) == IF a >= 0 THEN a ELSE 0 - a

----------------------------------------------------------------------------
(* The generator of module random *)

\* random.seed(x): the state depends on the seed only
RngSeed(x) == (7 * x + 1) % RngMod

\* one draw advances the state
RngNext(s) == (5 * s + 3) % RngMod

RECURSIVE RngAt(_, _)
\* the state after k draws from state s; the k-th draw returns it
RngAt(s, k) == IF k = 0 THEN s ELSE RngNext(RngAt(s, k - 1))

\* random.uniform(a, b) at the k-th draw from s: a + (b-a) * random()
Uniform(s, k, a, b) == a + ((b - a) * RngAt(s, k)) \div (RngMod - 1)

\* random.choice(seq) at the k-th draw from s
Choice(s, k, seq) == seq[1 + (RngAt(s, k) * Len(seq)) \div RngMod]

----------------------------------------------------------------------------
(* list.sort / sorted and the minimum-spacing walk *)

RECURSIVE Insert(_, _)
Insert(x, seq) ==
    IF seq = << >> THEN <<x>>
    ELSE IF x <= Head(seq) THEN <<x>> \o seq
    ELSE <<Head(seq)>> \o Insert(x, Tail(seq))

RECURSIVE Sorted(_)
Sorted(seq) == IF seq = << >> THEN << >> ELSE Insert(Head(seq), Sorted(Tail(seq)))

RECURSIVE PushForward(_, _, _)
\* for i in range(1, len(p)): if p[i] - p[i-1] < cut: p[i] = p[i-1] + cut
PushForward(done, rest, cut) ==
    IF rest = << >> THEN done
    ELSE IF done = << >> THEN PushForward(<<Head(rest)>>, Tail(rest), cut)
    ELSE LET last == done[Len(done)]
             x    == Head(rest)
             y    == IF x - last < cut THEN last + cut ELSE x
         IN  PushForward(Append(done, y), Tail(rest), cut)

EnsureSpacing(points, cut) == PushForward(<< >>, points, cut)

----------------------------------------------------------------------------
(* The sub-strategies. Each takes the generator state s and the number of  *)
(* draws k0 already made from it; its i-th point (i = 0 ..) uses draw      *)
(* k0 + i + 1.                                                             *)

\* _spread_out_variation: midpoint of each section +- 30% of the section
spread_out_point(s, k, available_duration, num_cuts, i) ==
    LET section_size  == available_duration \div num_cuts
        section_start == i * section_size
        section_end   == Min((i + 1) * section_size, available_duration)
        mid_point     == (section_start + section_end) \div 2
        variation     == Uniform(s, k, 0 - (section_size * 3) \div 10, (section_size * 3) \div 10)
        start_point   == mid_point + variation
    IN  Max(section_start, Min(start_point, section_end))

_spread_out_variation(s, k0, available_duration, cut_duration, num_cuts) ==
    Sorted([j \in 1..num_cuts |->
        spread_out_point(s, k0 + j, available_duration, num_cuts, j - 1)])

\* _linear_random_variation: multiples of available/(n+1), jitter +-20%
linear_random_point(s, k, available_duration, num_cuts, i) ==
    LET base_interval == available_duration \div (num_cuts + 1)
        base_point    == (i + 1) * base_interval
        variation     == (Uniform(s, k, -200, 200) * base_interval) \div 1000
        start_point   == base_point + variation
    IN  Max(0, Min(start_point, available_duration))

_linear_random_variation(s, k0, available_duration, cut_duration, num_cuts) ==
    Sorted([j \in 1..num_cuts |->
        linear_random_point(s, k0 + j, available_duration, num_cuts, j - 1)])

RECURSIVE ExpSeries(_, _, _, _)
\* sum of the terms x^k/k! from term number k on, x and the terms in 1/10000
ExpSeries(x, term, k, fuel) ==
    IF fuel = 0 \/ term = 0 THEN 0
    ELSE term + ExpSeries(x, (term * x) \div (10000 * k), k + 1, fuel - 1)

\* math.exp(-2 * num/den) in 1/10000, for 0 <= num <= den
ExpNeg2(num, den) ==
    LET x == (20000 * num) \div den
    IN  100000000 \div ExpSeries(x, 10000, 1, 16)

\* _exponential_variation: available * (1 - exp(-2 * i/(n-1)))
exponential_point(available_duration, num_cuts, i) ==
    LET factor == IF num_cuts > 1 THEN ExpNeg2(i, num_cuts - 1) ELSE 10000
        start_point == ((available_duration \div 100) * (10000 - factor)) \div 100
    IN  Max(0, start_point)

_exponential_variation(available_duration, cut_duration, num_cuts) ==
    Sorted([j \in 1..num_cuts |-> exponential_point(available_duration, num_cuts, j - 1)])

\* _clustered_variation: min(3, n // 2) clusters of n // clusters points each
clustered_point(s, k, available_duration, cut_duration, num_clusters, cluster_cuts, cluster, j) ==
    LET cluster_size  == available_duration \div num_clusters
        cluster_start == cluster * cluster_size
        cluster_end   == Min((cluster + 1) * cluster_size, available_duration)
        den           == Max(1, cluster_cuts - 1)
        start_point   == cluster_start + ((cluster_end - cluster_start) * j) \div den
        variation     == Uniform(s, k, 0 - (cut_duration * 3) \div 10, (cut_duration * 3) \div 10)
    IN  Max(cluster_start, Min(start_point + variation, cluster_end))

RECURSIVE clustered_loop(_, _, _, _, _, _, _)
clustered_loop(s, k0, available_duration, cut_duration, num_cuts, cluster, start_points) ==
    LET num_clusters     == Min(3, num_cuts \div 2)
        cuts_per_cluster == num_cuts \div num_clusters
        cluster_cuts     == Min(cuts_per_cluster, num_cuts - Len(start_points))
        here == [j \in 1..Max(0, cluster_cuts) |->
                    clustered_point(s, k0 + Len(start_points) + j, available_duration,
                                    cut_duration, num_clusters, cluster_cuts, cluster, j - 1)]
    IN  IF cluster >= num_clusters THEN start_points
        ELSE clustered_loop(s, k0, available_duration, cut_duration, num_cuts,
                            cluster + 1, start_points \o here)

_clustered_variation(s, k0, available_duration, cut_duration, num_cuts) ==
    Sorted(clustered_loop(s, k0, available_duration, cut_duration, num_cuts, 0, << >>))

----------------------------------------------------------------------------
(* The three tiers. A tier returns [points, draws, hung]: the start        *)
(* points, the number of draws made, and whether the call never returns.   *)

Returned(points, draws) == [points |-> points, draws |-> draws, hung |-> FALSE]

\* _simple_variation: one random offset per equal section, then sort and space
simple_point(s, k, available_duration, cut_duration, num_cuts, i) ==
    LET section_size  == available_duration \div num_cuts
        section_start == i * section_size
        section_end   == Min((i + 1) * section_size, available_duration)
        random_offset == Uniform(s, k, 0, Min(section_end - section_start, cut_duration \div 2))
        start_point   == IF section_end > section_start
                         THEN section_start + random_offset
                         ELSE section_start
    IN  Max(0, start_point)

_simple_variation(s, available_duration, cut_duration, num_cuts) ==
    LET section_size == available_duration \div num_cuts
        \* every section has the same size, so either every iteration draws or none
        draws  == IF section_size > 0 THEN num_cuts ELSE 0
        raw    == [j \in 1..num_cuts |->
                      simple_point(s, j, available_duration, cut_duration, num_cuts, j - 1)]
    IN  Returned(EnsureSpacing(Sorted(raw), cut_duration), draws)

Patterns == <<"linear_random", "exponential", "clustered", "spread_out">>

\* _medium_variation: the pattern by num_cuts; no spacing walk in this tier
_medium_variation(s, available_duration, cut_duration, num_cuts) ==
    LET k0 == IF num_cuts <= 7 THEN 0 ELSE 1
        pattern == IF num_cuts <= 3 THEN "spread_out"
                   ELSE IF num_cuts <= 7 THEN "linear_random"
                   ELSE Choice(s, 1, Patterns)
    IN  IF pattern = "linear_random"
        THEN Returned(_linear_random_variation(s, k0, available_duration, cut_duration, num_cuts),
                      k0 + num_cuts)
        ELSE IF pattern = "exponential"
        THEN Returned(_exponential_variation(available_duration, cut_duration, num_cuts), k0)
        ELSE IF pattern = "clustered"
        THEN LET pts == _clustered_variation(s, k0, available_duration, cut_duration, num_cuts)
             IN  Returned(pts, k0 + Len(pts))
        ELSE Returned(_spread_out_variation(s, k0, available_duration, cut_duration, num_cuts),
                      k0 + num_cuts)

RECURSIVE advanced_zones(_, _, _, _, _, _)
\* for zone in range(zones): spread-out points of the zone, shifted into it
advanced_zones(s, available_duration, cut_duration, num_cuts, zone, start_points) ==
    LET zones         == 4
        zone_duration == available_duration \div zones
        cuts_per_zone == Max(1, num_cuts \div zones)
        zone_start    == zone * zone_duration
        zone_end      == Min((zone + 1) * zone_duration, available_duration)
        zone_cuts     == Min(cuts_per_zone, num_cuts - Len(start_points))
        zone_points   == _spread_out_variation(s, Len(start_points), zone_end - zone_start,
                                               cut_duration, zone_cuts)
        shifted       == [j \in 1..Len(zone_points) |-> zone_start + zone_points[j]]
    IN  IF zone >= zones THEN start_points
        ELSE IF zone_cuts > 0
        THEN advanced_zones(s, available_duration, cut_duration, num_cuts, zone + 1,
                            start_points \o shifted)
        ELSE advanced_zones(s, available_duration, cut_duration, num_cuts, zone + 1, start_points)

too_close(random_point, start_points, cut_duration) ==
    \E j \in 1..Len(start_points) :
        Abs(random_point - start_points[j]) < (cut_duration * 8) \div 10

\* some point of [0, available_duration] is not too close to any start point;
\* if one is, then so is 0, available_duration or a point 0.8 * cut_duration
\* away from a start point
has_admissible(start_points, available_duration, cut_duration) ==
    LET gap        == (cut_duration * 8) \div 10
        candidates == {0, available_duration}
                          \cup {start_points[j] + gap : j \in 1..Len(start_points)}
                          \cup {start_points[j] - gap : j \in 1..Len(start_points)}
    IN  \E c \in candidates :
            /\ 0 <= c /\ c <= available_duration
            /\ ~too_close(c, start_points, cut_duration)

RECURSIVE advanced_backfill(_, _, _, _, _, _, _)
\* while len(start_points) < num_cuts: draw, keep the point unless too close.
\* RngMod rejections in a row bring the generator back to a state it had
\* with the same points: the loop never ends.
advanced_backfill(s, k, available_duration, cut_duration, num_cuts, start_points, fuel) ==
    LET random_point == Uniform(s, k + 1, 0, available_duration)
    IN  IF Len(start_points) >= num_cuts THEN Returned(start_points, k)
        ELSE IF fuel = 0 THEN [points |-> start_points, draws |-> k, hung |-> TRUE]
        ELSE IF too_close(random_point, start_points, cut_duration)
        THEN advanced_backfill(s, k + 1, available_duration, cut_duration, num_cuts,
                               start_points, fuel - 1)
        ELSE advanced_backfill(s, k + 1, available_duration, cut_duration, num_cuts,
                               Append(start_points, random_point), RngMod)

\* _advanced_variation: 4 zones, backfill, sort, space, truncate to num_cuts
_advanced_variation(s, available_duration, cut_duration, num_cuts) ==
    LET zoned  == advanced_zones(s, available_duration, cut_duration, num_cuts, 0, << >>)
        filled == advanced_backfill(s, Len(zoned), available_duration, cut_duration,
                                    num_cuts, zoned, RngMod)
        spaced == EnsureSpacing(Sorted(filled.points), cut_duration)
    IN  IF filled.hung THEN filled
        ELSE Returned(SubSeq(spaced, 1, Min(num_cuts, Len(spaced))), filled.draws)

\* a generator that is left as the caller found it, never seeded
seed_generator_unseeded(s0, processing_count) == s0

\* random.seed(self.processing_count + 42)
seed_generator(s0, processing_count) == RngSeed(processing_count + 42)

\* generate_varied_start_points, called with generator state s0:
\* [points, rng (the generator state afterwards), hung]
generate_varied_start_points(s0, total_duration, cut_duration, num_cuts, processing_count) ==
    LET available_duration == total_duration - cut_duration
        seeded == seed_generator(s0, processing_count)
        tier   == IF total_duration <= Sec(300)
                  THEN _simple_variation(seeded, available_duration, cut_duration, num_cuts)
                  ELSE IF total_duration <= Sec(1800)
                  THEN _medium_variation(seeded, available_duration, cut_duration, num_cuts)
                  ELSE _advanced_variation(seeded, available_duration, cut_duration, num_cuts)
    IN  IF total_duration <= cut_duration * 2
        THEN [points |-> IF num_cuts = 1 THEN <<0>> ELSE <<0, total_duration - cut_duration>>,
              rng |-> s0, hung |-> FALSE]
        ELSE IF available_duration <= 0
        THEN [points |-> <<0>>, rng |-> s0, hung |-> FALSE]
        ELSE [points |-> tier.points, rng |-> RngAt(seeded, tier.draws), hung |-> tier.hung]

----------------------------------------------------------------------------
(* Text. A Python str is a sequence of one-character strings.  Accented    *)
(* letters of the source's literals are written without the accent, which  *)
(* keeps every length.                                                     *)

Whitespace == {" ", "\n", "\t"}

IsSpace(c) == c \in Whitespace
IsNotSpace(c) == c \notin Whitespace

\* the first index of str whose character passes Test, 0 if there is none
FirstWhere(str, Test(_)) ==
    IF \E i \in 1..Len(str) : Test(str[i])
    THEN CHOOSE i \in 1..Len(str) : Test(str[i]) /\ \A j \in 1..(i - 1) : ~Test(str[j])
    ELSE 0

\* the last index of str whose character passes Test, 0 if there is none
LastWhere(str, Test(_)) ==
    IF \E i \in 1..Len(str) : Test(str[i])
    THEN CHOOSE i \in 1..Len(str) : Test(str[i]) /\ \A j \in (i + 1)..Len(str) : ~Test(str[j])
    ELSE 0

\* str.strip()
Strip(str) ==
    IF FirstWhere(str, IsNotSpace) = 0 THEN << >>
    ELSE SubSeq(str, FirstWhere(str, IsNotSpace), LastWhere(str, IsNotSpace))

RECURSIVE SplitOn(_, _)
\* str.split(sep) for a one-character separator
SplitOn(str, sep) ==
    LET IsSep(c) == c = sep
        i == FirstWhere(str, IsSep)
    IN  IF i = 0 THEN <<str>>
        ELSE <<SubSeq(str, 1, i - 1)>> \o SplitOn(SubSeq(str, i + 1, Len(str)), sep)

RECURSIVE SplitWords(_)
\* str.split()
SplitWords(str) ==
    LET from == FirstWhere(str, IsNotSpace)
        rest == SubSeq(str, from, Len(str))
        stop == FirstWhere(rest, IsSpace)
    IN  IF from = 0 THEN << >>
        ELSE IF stop = 0 THEN <<rest>>
        ELSE <<SubSeq(rest, 1, stop - 1)>> \o SplitWords(SubSeq(rest, stop, Len(rest)))

RECURSIVE Join(_, _)
\* sep.join(parts)
Join(parts, sep) ==
    IF parts = << >> THEN << >>
    ELSE IF Len(parts) = 1 THEN parts[1]
    ELSE parts[1] \o sep \o Join(Tail(parts), sep)

RECURSIVE Flatten(_)
Flatten(parts) == IF parts = << >> THEN << >> ELSE Head(parts) \o Flatten(Tail(parts))

NotQuote(c) == c \notin {"\"", "'", "\\"}

\* text.replace('"', '').replace("'", '').replace('\\', '')
StripQuotes(str) == SelectSeq(str, NotQuote)

\* pat in str
Contains(str, pat) ==
    \E k \in 0..(Len(str) - Len(pat)) : SubSeq(str, k + 1, k + Len(pat)) = pat

Digits == <<"0", "1", "2", "3", "4", "5", "6", "7", "8", "9">>

RECURSIVE IntStr(_)
\* str(n) for n >= 0
IntStr(n) == IF n < 10 THEN <<Digits[n + 1]>> ELSE IntStr(n \div 10) \o <<Digits[(n % 10) + 1]>>

RECURSIVE PadLeft(_, _)
\* f"{n:0<width>d}"
PadLeft(str, width) == IF Len(str) >= width THEN str ELSE PadLeft(<<"0">> \o str, width)

RECURSIVE Pow2(_)
Pow2(x) == IF x = 0 THEN 1 ELSE 2 * Pow2(x - 1)

RECURSIVE Pow2Mod(_, _)
\* 2^k modulo n
Pow2Mod(k, n) == IF k = 0 THEN 1 % n ELSE (2 * Pow2Mod(k - 1, n)) % n

RECURSIVE FloorLog2(_, _)
\* the binary exponent of the float n / d: the e with 2^e <= n/d < 2^(e+1)
FloorLog2(n, d) ==
    IF n >= 2 * d THEN 1 + FloorLog2(n, 2 * d)
    ELSE IF n < d THEN FloorLog2(2 * n, d) - 1
    ELSE 0

RECURSIVE BinadeBelow(_)
\* the E with 2^E < m <= 2^(E+1): floats just below m are 2^(E-52) apart
BinadeBelow(m) == IF m <= 2 THEN 0 ELSE 1 + BinadeBelow((m + 1) \div 2)

\* int((seconds % 1) * 1000) in binary floating point, for the float nearest
\* to t / 1000: 1 when the product rounds to a float below t % 1000 and the
\* truncation loses a millisecond, else 0.  The float is m + d with
\* |d| <= half a unit in the last of its 53 bits; seconds % 1 is exact; the
\* product falls short of t % 1000 when the float was rounded down by more
\* than half the spacing of the floats below t % 1000.
binade_loss(t, a) ==
    LET m == t % 1000
        r == (m * Pow2Mod(52 - a, 1000)) % 1000
        x == BinadeBelow(m) - a - 1
    IN  IF m = 0 \/ r = 0 \/ r > 500 THEN 0
        ELSE IF x < 0 THEN 1
        ELSE IF r > Pow2(x) THEN 1 ELSE 0

float_loss(t) == IF t = 0 THEN 0 ELSE binade_loss(t, FloorLog2(t, 1000))

\* the same for the float (x + s) - s, where x is t / 1000 and s the offset
\* that transcribe_segment added and create_subtitles subtracts: the sum is
\* rounded in the binade of x + s, the difference is exact, so t / 1000 comes
\* back rounded to the spacing of the floats around x + s
round_trip_loss(t, offset) ==
    IF t = 0 THEN 0
    ELSE IF offset = 0 THEN float_loss(t)
    ELSE binade_loss(t, FloorLog2(t + offset, 1000))

\* f"{hours:02d}:{minutes:02d}:{secs:02d},{millisecs:03d}" of a time whose
\* whole milliseconds are t
srt_fields(t, millisecs) ==
    LET hours   == t \div 3600000
        minutes == (t % 3600000) \div 60000
        secs    == (t % 60000) \div 1000
    IN  PadLeft(IntStr(hours), 2) \o <<":">> \o PadLeft(IntStr(minutes), 2) \o <<":">>
        \o PadLeft(IntStr(secs), 2) \o <<",">> \o PadLeft(IntStr(millisecs), 3)

\* format_srt_time of the float nearest to seconds / 1000 (a time in whole
\* milliseconds)
format_srt_time(seconds) ==
    srt_fields(seconds, (seconds % 1000) - float_loss(seconds))

\* format_srt_time of (x + s) - s for x = seconds / 1000 and s = offset / 1000
format_srt_offset(seconds, offset) ==
    srt_fields(seconds, (seconds % 1000) - round_trip_loss(seconds, offset))

\* format_srt_time of the quotient num / den milliseconds: between two whole
\* milliseconds the float's rounding cannot reach the truncation
format_srt_quotient(num, den) ==
    IF num % den = 0 THEN format_srt_time(num \div den)
    ELSE srt_fields(num \div den, (num \div den) % 1000)

\* sentence_endings = ['.', '!', '?', '...']
sentence_endings == {<<".">>, <<"!">>, <<"?">>, <<".", ".", ".">>}

IsEnding(c) == <<c>> \in sentence_endings

RECURSIVE sentence_loop(_)
\* for char in text: the sentence so far ends at every char in sentence_endings
\* and is kept, stripped, unless blank; what follows the last ending is kept too
sentence_loop(text) ==
    LET i     == FirstWhere(text, IsEnding)
        clean == Strip(SubSeq(text, 1, i))
    IN  IF i = 0 THEN (IF Strip(text) # << >> THEN <<Strip(text)>> ELSE << >>)
        ELSE (IF clean # << >> THEN <<clean>> ELSE << >>)
             \o sentence_loop(SubSeq(text, i + 1, Len(text)))

RECURSIVE word_groups(_, _)
\* for i in range(0, len(words), group_size): ' '.join(words[i:i + group_size])
word_groups(words, group_size) ==
    IF words = << >> THEN << >>
    ELSE <<Join(SubSeq(words, 1, Min(group_size, Len(words))), <<" ">>)>>
         \o word_groups(SubSeq(words, Min(group_size, Len(words)) + 1, Len(words)), group_size)

\* a filter that keeps every part
keep_every_part(str) == TRUE

\* if s.strip()
IsNonBlank(str) == Strip(str) # << >>

\* split_into_sentences
split_into_sentences(text) ==
    LET tier1  == sentence_loop(text)
        parts  == SelectSeq(SplitOn(text, ","), IsNonBlank)
        commas == [k \in 1..Len(parts) |-> Strip(parts[k])]
        tier2  == IF Len(tier1) <= 1 THEN commas ELSE tier1
        words  == SplitWords(text)
        tier3  == IF Len(words) > 10
                  THEN word_groups(words, Max(8, Len(words) \div 3))
                  ELSE <<text>>
    IN  IF Len(tier2) <= 1 THEN tier3 ELSE tier2

LineBreak == <<"\\", "N">>

RECURSIVE reflow(_, _, _, _)
\* the greedy re-flow: at most 25 characters a line while fewer than 2 lines are complete
reflow(all_words, lines, current_line, current_length) ==
    IF all_words = << >>
    THEN (IF current_line # << >> THEN Append(lines, Join(current_line, <<" ">>)) ELSE lines)
    ELSE LET word == Head(all_words)
         IN  IF current_length + Len(word) + 1 <= 25 /\ Len(lines) < 2
             THEN reflow(Tail(all_words), lines, Append(current_line, word),
                         current_length + Len(word) + 1)
             ELSE reflow(Tail(all_words),
                         IF current_line # << >>
                         THEN Append(lines, Join(current_line, <<" ">>)) ELSE lines,
                         <<word>>, Len(word))

RECURSIVE merge_last(_)
\* while len(lines) > 3: lines[-2] = lines[-2] + " " + lines[-1]; lines.pop()
merge_last(lines) ==
    IF Len(lines) <= 3 THEN lines
    ELSE LET n == Len(lines)
         IN  merge_last(SubSeq(lines, 1, n - 2) \o <<lines[n - 1] \o <<" ">> \o lines[n]>>)

\* a one-line test that sends a text of exactly 20 characters to two lines
fits_one_line_strict(text) == Len(text) < 20

\* if len(text) <= 20: return text
fits_one_line(text) == Len(text) <= 20

\* create_multi_line_subtitle
create_multi_line_subtitle(words) ==
    LET text        == Join(words, <<" ">>)
        total_words == Len(words)
        mid_point   == total_words \div 2
        part1_end   == total_words \div 3
        part2_end   == (total_words * 2) \div 3
        line1       == Join(SubSeq(words, 1, part1_end), <<" ">>)
        line2       == Join(SubSeq(words, part1_end + 1, part2_end), <<" ">>)
        line3       == Join(SubSeq(words, part2_end + 1, total_words), <<" ">>)
        max_chars   == 25
    IN  IF words = << >>
        THEN <<"T","r","a","n","s","c","r","i","c","a","o">> \o LineBreak
             \o <<"a","u","t","o","m","a","t","i","c","a">>
        ELSE IF fits_one_line(text) THEN text
        ELSE IF Len(text) <= 40
        THEN Join(SubSeq(words, 1, mid_point), <<" ">>) \o LineBreak
             \o Join(SubSeq(words, mid_point + 1, total_words), <<" ">>)
        ELSE IF Len(line1) > max_chars \/ Len(line2) > max_chars \/ Len(line3) > max_chars
        THEN Join(merge_last(reflow(words, << >>, << >>, 0)), LineBreak)
        ELSE line1 \o LineBreak \o line2 \o LineBreak \o line3

----------------------------------------------------------------------------
(* create_subtitles.  A transcription is [kind, has_text, text,            *)
(* has_segments, segments]: kind "none" is None, "str" a plain string      *)
(* (text), "dict" a dict that has the keys the flags say.                  *)

NL == <<"\n">>
Arrow == <<" ", "-", "-", ">", " ">>
ZeroTime == <<"0", "0", ":", "0", "0", ":", "0", "0", ",", "0", "0", "0">>
TxtAutoCut == <<"T", "r", "a", "n", "s", "c", "r", "i", "c", "a", "o", " ", "a", "u", "t", "o", "m", "a", "t", "i", "c", "a", " ", "d", "o", " ", "c", "o", "r", "t", "e", " ">>
TxtAuto == <<"T", "r", "a", "n", "s", "c", "r", "i", "c", "a", "o", " ", "a", "u", "t", "o", "m", "a", "t", "i", "c", "a">>
TxtEmbedded == <<"L", "e", "g", "e", "n", "d", "a", "s", " ", "e", "m", "b", "u", "t", "i", "d", "a", "s", " ", "n", "o", " ", "v", "i", "d", "e", "o">>
TxtCaption == <<"L", "e", "g", "e", "n", "d", "a", " ", "a", "u", "t", "o", "m", "a", "t", "i", "c", "a">>
TxtCutWord == <<"c", "o", "r", "t", "e", " ">>

\* f"{index}\n{start} --> {end}\n{text}\n\n"
cue_block(index, start_str, end_str, text) ==
    IntStr(index) \o NL \o start_str \o Arrow \o end_str \o NL \o text \o NL \o NL

\* a number of milliseconds printed as seconds
NumRepr(t) == IntStr(t \div 1000) \o <<".">> \o PadLeft(IntStr(t % 1000), 3)

SegmentRepr(seg) ==
    <<"{", "'", "s", "t", "a", "r", "t", "'", ":", " ">> \o NumRepr(seg.start) \o <<",", " ", "'", "e", "n", "d", "'", ":", " ">> \o NumRepr(seg.end)
    \o <<",", " ", "'", "t", "e", "x", "t", "'", ":", " ", "'">> \o seg.text \o <<"'", "}">>

\* str(transcription_data)
StrOf(td) ==
    IF td.kind = "none" THEN <<"N", "o", "n", "e">>
    ELSE IF td.kind = "str" THEN td.text
    ELSE <<"{">>
         \o (IF td.has_text THEN <<"'", "t", "e", "x", "t", "'", ":", " ", "'">> \o td.text \o <<"'">> ELSE << >>)
         \o (IF td.has_text /\ td.has_segments THEN <<",", " ">> ELSE << >>)
         \o (IF td.has_segments
             THEN <<"'", "s", "e", "g", "m", "e", "n", "t", "s", "'", ":", " ", "[">>
                  \o Join([k \in 1..Len(td.segments) |-> SegmentRepr(td.segments[k])], <<",", " ">>)
                  \o <<"]">>
             ELSE << >>)
         \o <<"}">>

\* self._cut_start_times[cut_id] = start_time
StoreStart(times, cut_id, start_time) ==
    {e \in times : e[1] # cut_id} \cup {<<cut_id, start_time>>}

\* get_cut_start_time: the stored start, else an estimate from the cut id
\* (30 s clips laid end to end), which is stored unless the source is too short
get_cut_start_time(times, cut_id, total) ==
    LET stored    == {e \in times : e[1] = cut_id}
        available == total - Sec(30)
        estimate  == Min((cut_id - 1) * Sec(30), available)
    IN  IF stored # {} THEN [value |-> (CHOOSE e \in stored : TRUE)[2], times |-> times]
        ELSE IF available <= 0 THEN [value |-> 0, times |-> times]
        ELSE [value |-> estimate, times |-> StoreStart(times, cut_id, estimate)]

RECURSIVE segment_cues(_, _, _, _, _)
\* for segment in segments: a cue for every segment with text and a positive range
segment_cues(segments, cut_start_time, cut_duration, subtitle_id, srt_content) ==
    IF segments = << >> THEN srt_content
    ELSE LET segment        == Head(segments)
             relative_start == Max(0, segment.start - cut_start_time)
             relative_end   == Min(Max(0, segment.end - cut_start_time), cut_duration)
             segment_text   == StripQuotes(Strip(segment.text))
             end_offset     == IF segment.end - cut_start_time < cut_duration
                               THEN cut_start_time ELSE 0
             block == cue_block(subtitle_id, format_srt_offset(relative_start, cut_start_time),
                                format_srt_offset(relative_end, end_offset),
                                create_multi_line_subtitle(SplitWords(segment_text)))
         IN  IF segment_text # << >> /\ relative_end > relative_start
             THEN segment_cues(Tail(segments), cut_start_time, cut_duration, subtitle_id + 1,
                               srt_content \o block)
             ELSE segment_cues(Tail(segments), cut_start_time, cut_duration, subtitle_id,
                               srt_content)

\* for i, sentence in enumerate(sentences): equal shares of the clip, at least 1 s each
sentence_cues(sentences, cut_duration) ==
    LET n == Len(sentences)
        \* time_per_sentence = max(1.0, cut_duration / len(sentences))
        one_second == cut_duration < Sec(1) * n
        start_str(i) == IF one_second THEN format_srt_time(i * Sec(1))
                        ELSE format_srt_quotient(i * cut_duration, n)
        \* min((i + 1) * time_per_sentence, cut_duration)
        end_str(i) == IF one_second THEN format_srt_time(Min((i + 1) * Sec(1), cut_duration))
                      ELSE IF i + 1 = n THEN format_srt_time(cut_duration)
                      ELSE format_srt_quotient((i + 1) * cut_duration, n)
    IN  Flatten([k \in 1..n |->
            cue_block(k, start_str(k - 1), end_str(k - 1),
                      create_multi_line_subtitle(SplitWords(sentences[k])))])

\* the content as produced, with none of the three final checks
ensure_content_none(srt_content, cut_id, cut_duration) == srt_content

\* the three final checks: empty, shorter than 20 characters, no line with '-->'
ensure_content(srt_content, cut_id, cut_duration) ==
    LET end_str == format_srt_time(cut_duration)
        c1 == IF Strip(srt_content) = << >>
              THEN cue_block(1, ZeroTime, end_str,
                             TxtAutoCut \o IntStr(cut_id) \o LineBreak \o TxtEmbedded)
              ELSE srt_content
        c2 == IF Len(Strip(c1)) < 20
              THEN cue_block(1, ZeroTime, end_str,
                             TxtCaption \o LineBreak \o TxtCutWord \o IntStr(cut_id))
              ELSE c1
        lines == SplitOn(c2, "\n")
    IN  IF ~(\E k \in 1..Len(lines) : Contains(lines[k], <<"-", "-", ">">>))
        THEN cue_block(1, ZeroTime, end_str, TxtAuto \o LineBreak \o TxtCutWord \o IntStr(cut_id))
        ELSE c2

\* create_subtitles with the clip file probed at cut_duration:
\* [raised, content (what is written to the .srt file), times]
create_subtitles(transcription_data, cut_id, cut_duration, times, total) ==
    LET blank == transcription_data.kind = "str" /\ Strip(transcription_data.text) = << >>
        td == IF transcription_data.kind = "none" \/ blank
              THEN [transcription_data EXCEPT !.kind = "str",
                                              !.text = TxtAutoCut \o IntStr(cut_id)]
              ELSE transcription_data
        end_str  == format_srt_time(cut_duration)
        lookup   == get_cut_start_time(times, cut_id, total)
        plain0   == Strip(StrOf(td))
        plain    == StripQuotes(IF plain0 = << >> THEN TxtAuto ELSE plain0)
        sentences == split_into_sentences(plain)
    IN  IF td.kind = "dict" /\ td.has_segments
        THEN IF ~td.has_text
             \* transcription_data['text'] raises KeyError: the except clause writes one cue
             THEN [raised |-> FALSE, times |-> times,
                   content |-> cue_block(1, ZeroTime, end_str, StrOf(transcription_data))]
             ELSE IF td.segments = << >>
             THEN [raised |-> FALSE, times |-> times,
                   content |-> ensure_content(cue_block(1, ZeroTime, end_str, td.text),
                                              cut_id, cut_duration)]
             ELSE [raised |-> FALSE, times |-> lookup.times,
                   content |-> ensure_content(
                                   segment_cues(td.segments, lookup.value, cut_duration, 1, << >>),
                                   cut_id, cut_duration)]
        ELSE [raised |-> FALSE, times |-> times,
              content |-> ensure_content(
                              IF sentences = << >>
                              THEN cue_block(1, ZeroTime, end_str, plain)
                              ELSE sentence_cues(sentences, cut_duration),
                              cut_id, cut_duration)]

----------------------------------------------------------------------------
(* SpecGen: generate_varied_start_points as a function of its arguments,   *)
(* the processing count and the generator state it is called with.         *)

\* total durations and clip lengths (seconds) that reach every tier
GenTotals == {20, 50, 100, 250, 400, 900, 1500, 2000, 3600}
GenCutDurations == {15, 30, 60, 400}
GenNumCuts == {1, 2, 3, 5, 8, 10, 12}

\* create_cuts asks for more than one cut only when the source is longer than a clip
GenArguments ==
    {in \in [total : {Sec(t) : t \in GenTotals}, cut : {Sec(d) : d \in GenCutDurations},
             num : GenNumCuts, count : 0..MaxCount] :
        in.num > 1 => in.total > in.cut}

NoCall == [total |-> 0, cut |-> 0, num |-> 0, count |-> 0]
NoResult == [points |-> << >>, hung |-> FALSE, disturbed |-> FALSE]

\* no run is in progress
NoRun ==
    /\ src_duration = 0 /\ target_length = 0 /\ self_processing_count = 0
    /\ pc = "none" /\ n_cuts = 0 /\ plan_points = << >> /\ idx = 0
    /\ self_cut_start_times = {} /\ handed = << >> /\ cuts = << >> /\ failures = 0

NoSubIn == [transcription |-> [kind |-> "none", has_text |-> FALSE, text |-> << >>,
                              has_segments |-> FALSE, segments |-> << >>],
            cut_id |-> 0, cut_duration |-> 0]
NoSubOut == [raised |-> FALSE, content |-> << >>]

\* no call of SpecSub was made
NoSub == sub_in = NoSubIn /\ sub_out = NoSubOut

\* no call of SpecText was made
NoTxt == txt_call = "none" /\ txt_in = << >> /\ txt_out = << >> /\ txt_done = FALSE

\* gunicorn.conf.py: workers = 4; MaxWorkers of them are followed
MaxWorkers == 2

Workers == 1..MaxWorkers

\* the videos whose counts share one counter file
Videos == {"v", "w"}

NoStore ==
    /\ counter_file = [v \in Videos |-> 0]
    /\ file_init = [v \in Videos |-> 0]
    /\ file_truncated = FALSE
    /\ worker_pc = [k \in Workers |-> "none"]
    /\ worker_video = [k \in Workers |-> "v"]
    /\ worker_count = [k \in Workers |-> 0]
    /\ loaded_counters = [k \in Workers |-> [v \in Videos |-> 0]]

NoTrip == clip_start = 0 /\ local_segments = << >>

NoProbe == probe = "none"

\* no call of SpecFmt, SpecText, SpecStore or SpecTrip was made
NoFmt == fmt_in = -1 /\ fmt_out = << >> /\ NoTxt /\ NoStore /\ NoTrip /\ NoProbe

\* project folders 1 .. MaxRuns exist; an upload takes the next one
Folders == 1..MaxRuns

\* no processor was built and no counter file written
NoProc ==
    /\ counters = [f \in Folders |-> 0] /\ folder = 0
    /\ returned = "none" /\ error = "none" /\ ai_reply = "none"
    /\ segment_stt_failed = FALSE /\ counter_error = FALSE /\ prev_upload = -1

\* no call of SpecGen was made
NoGen ==
    /\ gen_in = NoCall /\ gen_out = NoResult /\ gen_prev = NoResult
    /\ gen_disturbed = FALSE

InitGen ==
    /\ NoRun
    /\ NoSub
    /\ NoFmt
    /\ NoProc
    /\ rng \in 0..(RngMod - 1)
    /\ gen_in = NoCall
    /\ gen_out = NoResult
    /\ gen_prev = NoResult
    /\ gen_disturbed = FALSE

\* a first call, with any arguments
GenCall ==
    /\ gen_in = NoCall
    /\ \E in \in GenArguments :
          LET r  == generate_varied_start_points(rng, in.total, in.cut, in.num, in.count)
          IN  /\ gen_in' = in
              /\ gen_out' = [points |-> r.points, hung |-> r.hung, disturbed |-> FALSE]
              /\ rng' = r.rng
    /\ UNCHANGED <<gen_prev, gen_disturbed, runvars, subvars, sidevars, procvars>>

\* the same call again, from whatever state the generator is in now
GenRepeat ==
    /\ gen_in # NoCall
    /\ LET r == generate_varied_start_points(rng, gen_in.total, gen_in.cut, gen_in.num,
                                             gen_in.count)
       IN  /\ gen_out' = [points |-> r.points, hung |-> r.hung, disturbed |-> gen_disturbed]
           /\ rng' = r.rng
    /\ gen_prev' = gen_out
    /\ gen_disturbed' = FALSE
    /\ UNCHANGED <<gen_in, runvars, subvars, sidevars, procvars>>

\* a random.uniform / random.choice made by any other caller in the process
OtherDraw ==
    /\ gen_in # NoCall
    /\ rng' = RngNext(rng)
    /\ gen_disturbed' = TRUE
    /\ UNCHANGED <<gen_in, gen_out, gen_prev, runvars, subvars, sidevars, procvars>>

NextGen == GenCall \/ GenRepeat \/ OtherDraw

SpecGen == InitGen /\ [][NextGen]_vars

Called == gen_in # NoCall /\ ~gen_out.hung

points == gen_out.points

\* C1 (as claimed): the returned points are sorted ascending and consecutive
\* points are at least cutDuration apart, in every tier.
C1_SortedAndSpaced ==
    Called => \A j \in 1..(Len(points) - 1) : points[j + 1] - points[j] >= gen_in.cut

\* C2 (as claimed): every returned start point lies in [0, totalDuration].
C2_PointsWithinSource ==
    Called => \A j \in 1..Len(points) : 0 <= points[j] /\ points[j] <= gen_in.total

\* C3 (as claimed): exactly numCuts points are returned whenever numCuts
\* clips of cutDuration fit in totalDuration.
C3_ExactCountWhenFeasible ==
    (Called /\ gen_in.num * gen_in.cut <= gen_in.total) => Len(points) = gen_in.num

\* C4: two calls with the same arguments and processing count return the same
\* sequence, whatever state the generator was in when each was made.
C4_Deterministic ==
    gen_prev # NoResult =>
        /\ gen_prev.points = gen_out.points
        /\ gen_prev.hung = gen_out.hung

\* C4 witness: a randomised plan computed again after foreign draws
C4_Witness ==
    /\ gen_prev # NoResult
    /\ gen_out.disturbed
    /\ gen_in.total > 2 * gen_in.cut
    /\ Len(gen_out.points) >= 3

----------------------------------------------------------------------------
(* Spec: one run of create_cuts on a probed source, one loop iteration per *)
(* step, with the outcome of each collaborator call chosen freely.         *)

\* source durations and target lengths (seconds)
\* 300 s is also what get_video_info reports when the probe fails
Totals == {4, 5, 12, 50, 60, 90, 95, 100, 150, 300, 600, 900, 2000}
Durations == {15, 30, 60, 200}

\* a source and a target shorter than one second (ms)
SubSecond == 500

SourceDurations == {Sec(t) : t \in Totals} \cup {SubSecond}
TargetLengths == {Sec(d) : d \in Durations} \cup {SubSecond}

\* what the content-planning call did: not made (the transcription has no
\* text), valid JSON, text that is not JSON, an exception
AiReplies == {"skipped", "json", "not_json", "raises"}

\* analyze_content: the AI's analysis, else create_fallback_analysis
analysis_of(reply) == IF reply = "json" THEN "ai" ELSE "fallback"

\* start points taken from the moments of the AI's analysis when there is one
start_points_from_analysis(analysis, s0, total, target, n, count) ==
    IF analysis = "ai"
    THEN [points |-> [k \in 1..n |-> (k - 1) * target], rng |-> s0, hung |-> FALSE]
    ELSE generate_varied_start_points(s0, total, target, n, count)

\* create_cuts(analysis, duration): the analysis is not read
start_points_for(analysis, s0, total, target, n, count) ==
    generate_varied_start_points(s0, total, target, n, count)

\* counters[video_id] = counters.get(video_id, 0) + 1
stored_after_run(count) == count + 1

\* the loop goes on with the next clip after an error
after_error_abort(i, n) == n

\* except Exception: continue
after_error(i, n) == i + 1

\* the clip count with every bound of the table taken as strict
clip_count_strict(total, target) ==
    IF total < Sec(5) THEN 1
    ELSE IF total < target THEN 1
    ELSE IF total < target * 3 THEN 3
    ELSE IF total < target * 5 THEN 5
    ELSE IF total < target * 10 THEN 10
    ELSE Min(20, total \div target)

\* create_cuts: number of cuts from the total duration
clip_count(total, target) ==
    IF total <= Sec(5) THEN 1
    ELSE IF total <= target THEN 1
    ELSE IF total <= target * 3 THEN 3
    ELSE IF total <= target * 5 THEN 5
    ELSE IF total <= target * 10 THEN 10
    ELSE Min(20, total \div target)

\* ids numbered by the clips emitted so far
cut_id_contiguous(i, emitted) == Len(emitted) + 1

\* cut_id = i + 1
cut_id_of(i, emitted) == i + 1

\* a window that keeps one second of margin before the end of the source
end_time_with_margin(start_time) == Min(start_time + target_length, src_duration - Sec(1))

\* end_time = min(start_time + duration, total_duration)
end_time_of(start_time) == Min(start_time + target_length, src_duration)

\* a window test that skips every window shorter than the target length
too_short_under_target(start_time, end_time) == end_time - start_time < target_length

\* a window test that lets every window through
too_short_never(start_time, end_time) == FALSE

\* if end_time - start_time < 1: skip the cut
too_short(start_time, end_time) == end_time - start_time < Sec(1)

inputvars == <<src_duration, target_length, self_processing_count>>
cutvars == <<n_cuts, plan_points, idx, self_cut_start_times, handed, cuts, failures>>

\* a processor built on a folder whose counter file holds the count it read
Init ==
    /\ NoGen
    /\ NoSub
    /\ NoFmt
    /\ rng \in {0, RngMod - 1}
    /\ src_duration \in SourceDurations
    /\ target_length \in TargetLengths
    /\ self_processing_count \in 0..MaxCount
    /\ folder = 1
    /\ counters = [f \in Folders |-> IF f = 1 THEN self_processing_count ELSE 0]
    /\ returned = "none" /\ error = "none" /\ ai_reply = "none"
    /\ segment_stt_failed = FALSE /\ counter_error = FALSE /\ prev_upload = -1
    /\ pc = "built"
    /\ n_cuts = 0 /\ plan_points = << >> /\ idx = 0
    /\ self_cut_start_times = {} /\ handed = << >> /\ cuts = << >> /\ failures = 0

\* process_video's except clause: return {'success': False, 'error': str(e)}
Fails(step) ==
    /\ pc' = "returned"
    /\ returned' = "failure"
    /\ error' = step
    /\ UNCHANGED <<rng, genvars, subvars, sidevars, inputvars, cutvars, counters, folder,
                   ai_reply, segment_stt_failed, counter_error, prev_upload>>

\* a step of process_video that changes nothing the model tracks
Goes(to) ==
    /\ pc' = to
    /\ UNCHANGED <<rng, genvars, subvars, sidevars, procvars, inputvars, cutvars>>

\* audio_path = self.extract_audio()
ExtractAudio == pc = "built" /\ Goes("extracted")

\* extract_audio raises
ExtractAudioFails == pc = "built" /\ Fails("extract_audio")

\* transcription = self.transcribe_audio(audio_path)
TranscribeAudio == pc = "extracted" /\ Goes("transcribed")

\* transcribe_audio raises
TranscribeAudioFails == pc = "extracted" /\ Fails("transcribe_audio")

\* analysis = self.analyze_content(transcription, duration)
AnalyzeContent ==
    /\ pc = "transcribed"
    /\ \E reply \in AiReplies : ai_reply' = reply
    /\ pc' = "ready"
    /\ UNCHANGED <<rng, genvars, subvars, sidevars, inputvars, cutvars, counters, folder,
                   returned, error, segment_stt_failed, counter_error, prev_upload>>

\* create_cuts up to its loop: the clip count and the start points
PlanCuts ==
    /\ pc = "ready"
    /\ LET n == clip_count(src_duration, target_length)
           r == start_points_for(analysis_of(ai_reply), rng, src_duration, target_length, n,
                                 self_processing_count)
       IN  /\ n_cuts' = n
           /\ plan_points' = r.points
           /\ rng' = r.rng
           /\ pc' = IF r.hung THEN "hung" ELSE "cutting"
    /\ UNCHANGED <<genvars, subvars, sidevars, procvars, src_duration, target_length, self_processing_count, idx,
                   self_cut_start_times, handed, cuts, failures>>

InLoop == pc = "cutting" /\ idx < n_cuts

HasStart == idx + 1 <= Len(plan_points)

\* plan_points[i] raises IndexError: the iteration ends in the except clause
MissingStartPoint ==
    /\ InLoop
    /\ ~HasStart
    /\ idx' = after_error(idx, n_cuts)
    /\ UNCHANGED <<rng, genvars, subvars, sidevars, procvars, src_duration, target_length, self_processing_count, pc, n_cuts,
                   plan_points, self_cut_start_times, handed, cuts, failures>>

\* the window is shorter than 1 s: continue
SkipClip ==
    /\ InLoop
    /\ HasStart
    /\ LET cut_id     == cut_id_of(idx, cuts)
           start_time == plan_points[idx + 1]
           end_time   == end_time_of(start_time)
       IN  /\ too_short(start_time, end_time)
           /\ self_cut_start_times' = StoreStart(self_cut_start_times, cut_id, start_time)
    /\ idx' = idx + 1
    /\ UNCHANGED <<rng, genvars, subvars, sidevars, procvars, src_duration, target_length, self_processing_count, pc, n_cuts,
                   plan_points, handed, cuts, failures>>

\* create_simple_cut raises (ffmpeg fails, or the window is not positive)
CutFails ==
    /\ InLoop
    /\ HasStart
    /\ LET cut_id     == cut_id_of(idx, cuts)
           start_time == plan_points[idx + 1]
           end_time   == end_time_of(start_time)
       IN  /\ ~too_short(start_time, end_time)
           /\ failures < MaxFailures \/ end_time - start_time <= 0
           /\ self_cut_start_times' = StoreStart(self_cut_start_times, cut_id, start_time)
           /\ handed' = Append(handed, [id |-> cut_id, start_time |-> start_time,
                                        end_time |-> end_time])
           /\ failures' = IF end_time - start_time <= 0 THEN failures ELSE failures + 1
    /\ idx' = after_error(idx, n_cuts)
    /\ UNCHANGED <<rng, genvars, subvars, sidevars, procvars, src_duration, target_length, self_processing_count, pc, n_cuts,
                   plan_points, cuts>>

\* the cut is made and create_subtitles raises
SubtitlesFail ==
    /\ InLoop
    /\ HasStart
    /\ failures < MaxFailures
    /\ LET cut_id     == cut_id_of(idx, cuts)
           start_time == plan_points[idx + 1]
           end_time   == end_time_of(start_time)
       IN  /\ ~too_short(start_time, end_time)
           /\ end_time - start_time > 0
           /\ self_cut_start_times' = StoreStart(self_cut_start_times, cut_id, start_time)
           /\ handed' = Append(handed, [id |-> cut_id, start_time |-> start_time,
                                        end_time |-> end_time])
    /\ failures' = failures + 1
    /\ idx' = after_error(idx, n_cuts)
    /\ UNCHANGED <<rng, genvars, subvars, sidevars, procvars, src_duration, target_length, self_processing_count, pc, n_cuts,
                   plan_points, cuts>>

\* every step of the iteration succeeds: cuts.append({...})
EmitClip ==
    /\ InLoop
    /\ HasStart
    /\ LET cut_id     == cut_id_of(idx, cuts)
           start_time == plan_points[idx + 1]
           end_time   == end_time_of(start_time)
       IN  /\ ~too_short(start_time, end_time)
           /\ end_time - start_time > 0
           /\ self_cut_start_times' = StoreStart(self_cut_start_times, cut_id, start_time)
           /\ handed' = Append(handed, [id |-> cut_id, start_time |-> start_time,
                                        end_time |-> end_time])
           /\ cuts' = Append(cuts, [id |-> cut_id, start_time |-> start_time,
                                    end_time |-> end_time])
    /\ \E stt_fails \in BOOLEAN : segment_stt_failed' = (segment_stt_failed \/ stt_fails)
    /\ idx' = idx + 1
    /\ UNCHANGED <<rng, genvars, subvars, sidevars, inputvars, pc, n_cuts, plan_points, failures,
                   counters, folder, returned, error, ai_reply, counter_error, prev_upload>>

\* the loop is over: return cuts
FinishCuts ==
    /\ pc = "cutting"
    /\ idx >= n_cuts
    /\ pc' = "done"
    /\ UNCHANGED <<rng, genvars, subvars, sidevars, procvars, src_duration, target_length, self_processing_count, n_cuts,
                   plan_points, idx, self_cut_start_times, handed, cuts, failures>>

\* self.save_metadata(analysis, cuts)
SaveMetadata == pc = "done" /\ Goes("saved")

\* save_metadata raises
SaveMetadataFails == pc = "done" /\ Fails("save_metadata")

\* self._increment_processing_count(); return {'success': True, ...}
IncrementCount ==
    /\ pc = "saved"
    /\ counters' = [counters EXCEPT ![folder] = stored_after_run(@)]
    /\ pc' = "returned"
    /\ returned' = "success"
    /\ UNCHANGED <<rng, genvars, subvars, sidevars, inputvars, cutvars, folder, error,
                   ai_reply, segment_stt_failed, counter_error, prev_upload>>

\* _increment_processing_count ends in its except clause; success is returned
IncrementCountFails ==
    /\ pc = "saved"
    /\ counter_error' = TRUE
    /\ pc' = "returned"
    /\ returned' = "success"
    /\ UNCHANGED <<rng, genvars, subvars, sidevars, inputvars, cutvars, counters, folder,
                   error, ai_reply, segment_stt_failed, prev_upload>>

Next ==
    \/ ExtractAudio
    \/ ExtractAudioFails
    \/ TranscribeAudio
    \/ TranscribeAudioFails
    \/ AnalyzeContent
    \/ PlanCuts
    \/ MissingStartPoint
    \/ SkipClip
    \/ CutFails
    \/ SubtitlesFail
    \/ EmitClip
    \/ FinishCuts
    \/ SaveMetadata
    \/ SaveMetadataFails
    \/ IncrementCount
    \/ IncrementCountFails

Spec == Init /\ [][Next]_vars

Finished == pc = "done"

\* C5 (as claimed): when no cut, transcription, subtitle or final-video step
\* fails, create_cuts emits as many clips as the policy asked for.
C5_AllClipsEmitted ==
    (Finished /\ failures = 0) => Len(cuts) = n_cuts

Planned == n_cuts > 0

\* C6: the requested clip count is the first matching row of the policy
\* table; (12 s, 15 s) gives 1 and (100 s, 30 s) gives 5.
C6_ClipCountPolicy ==
    Planned =>
        /\ src_duration <= Sec(5) => n_cuts = 1
        /\ (src_duration > Sec(5) /\ src_duration <= target_length) => n_cuts = 1
        /\ (src_duration > Sec(5) /\ src_duration > target_length
              /\ src_duration <= 3 * target_length) => n_cuts = 3
        /\ (src_duration > Sec(5) /\ src_duration > 3 * target_length
              /\ src_duration <= 5 * target_length) => n_cuts = 5
        /\ (src_duration > Sec(5) /\ src_duration > 5 * target_length
              /\ src_duration <= 10 * target_length) => n_cuts = 10
        /\ (src_duration > Sec(5) /\ src_duration > 10 * target_length)
              => \/ n_cuts = 20 /\ 20 * target_length <= src_duration
                 \/ /\ n_cuts < 20
                    /\ n_cuts * target_length <= src_duration
                    /\ src_duration < (n_cuts + 1) * target_length
        /\ (src_duration = Sec(12) /\ target_length = Sec(15)) => n_cuts = 1
        /\ (src_duration = Sec(100) /\ target_length = Sec(30)) => n_cuts = 5

\* C6 witness: a source whose duration sits exactly on a row's bound
C6_Witness ==
    /\ Planned
    /\ src_duration = Sec(60) /\ target_length = Sec(60)
    /\ n_cuts = 1

\* C7: every emitted clip has 0 <= start < end <= total, end = min(start +
\* target, total) and a length between 1 s and the target; no window shorter
\* than 1 s is emitted or handed to create_simple_cut.
C7_ClipWindows ==
    /\ \A k \in 1..Len(cuts) :
          /\ 0 <= cuts[k].start_time
          /\ cuts[k].start_time < cuts[k].end_time
          /\ cuts[k].end_time <= src_duration
          /\ cuts[k].end_time = Min(cuts[k].start_time + target_length, src_duration)
          /\ Sec(1) <= cuts[k].end_time - cuts[k].start_time
          /\ cuts[k].end_time - cuts[k].start_time <= target_length
    /\ \A k \in 1..Len(handed) : handed[k].end_time - handed[k].start_time >= Sec(1)

\* C7 witness: a finished run whose plan had a start point beyond the end of
\* the source, and which emitted a clip cut short by the end of the source
C7_Witness ==
    /\ Finished
    /\ \E j \in 1..Len(plan_points) : plan_points[j] > src_duration
    /\ \E k \in 1..Len(cuts) : cuts[k].end_time - cuts[k].start_time < target_length

\* C8: the id of an emitted clip is the 1-indexed position of its start point
\* in the plan; ids are strictly increasing and starts non-decreasing.
C8_StableIds ==
    /\ \A k \in 1..Len(cuts) :
          /\ cuts[k].id \in 1..Len(plan_points)
          /\ plan_points[cuts[k].id] = cuts[k].start_time
    /\ \A k \in 1..(Len(cuts) - 1) :
          /\ cuts[k].id < cuts[k + 1].id
          /\ cuts[k].start_time <= cuts[k + 1].start_time

\* C8 witness: a finished run in which a clip was emitted after an earlier
\* one failed, so that ids and list positions differ
C8_Witness ==
    /\ Finished
    /\ failures > 0
    /\ \E k \in 1..Len(cuts) : cuts[k].id # k

RunReturned == pc = "returned"

\* C13: the count stored for the video is the count read at construction
\* until process_video returns; a call that returns success leaves it one
\* higher, a call that returns failure leaves it as it was.
C13_CountedOncePerSuccess ==
    /\ ~RunReturned => counters[folder] = self_processing_count
    /\ RunReturned => counters[folder] =
                       self_processing_count + (IF returned = "success" THEN 1 ELSE 0)

\* C15: a call that produced no clip returns failure, and a call returns
\* failure only if the source could not be read or no clip was produced.
C15_FailureIffNoClips ==
    RunReturned =>
        /\ Len(cuts) = 0 => returned = "failure"
        /\ returned = "failure" => (error = "extract_audio" \/ Len(cuts) = 0)

\* create_cuts returned and no call to the media tools failed on the way
MediaSucceeded == pc \in {"done", "saved"} /\ failures = 0

Hung == pc = "hung"

\* C17: a failure of speech-to-text, on the whole source or on the extract
\* of one clip, never makes process_video return failure: no failure is
\* the failure of transcribe_audio, and a run in which transcribe_segment
\* failed and nothing else raised returns success.
C17_SpeechFailureRecovered ==
    RunReturned =>
        /\ error # "transcribe_audio"
        /\ (segment_stt_failed /\ error = "none") => returned = "success"

\* the clip plan for a source, a target length and a processing count alone
plan_of(total, target, count) ==
    generate_varied_start_points(0, total, target, clip_count(total, target), count).points

\* generate_varied_start_points has just returned to create_cuts
JustPlanned == pc \in {"cutting", "hung"} /\ idx = 0

\* C18: the number of cuts and the start points create_cuts works with are
\* those given by the source duration, the target length and the processing
\* count alone, whatever the AI call did (not made, valid JSON, not JSON,
\* raised); the loop never changes them, every emitted window is the window
\* at the start point of its id, and no failure of process_video comes from
\* the analysis step: a call fails exactly when extract_audio,
\* transcribe_audio or save_metadata raised.
C18_PlanIndependentOfReply ==
    /\ [](JustPlanned =>
            /\ ai_reply \in AiReplies
            /\ n_cuts = clip_count(src_duration, target_length)
            /\ plan_points = plan_of(src_duration, target_length, self_processing_count))
    /\ [][Planned => (plan_points' = plan_points /\ n_cuts' = n_cuts)]_vars
    /\ [](\A k \in 1..Len(cuts) :
            /\ cuts[k].start_time = plan_points[cuts[k].id]
            /\ cuts[k].end_time = end_time_of(cuts[k].start_time))
    /\ [](RunReturned =>
            /\ error \in {"none", "extract_audio", "transcribe_audio", "save_metadata"}
            /\ returned = (IF error = "none" THEN "success" ELSE "failure"))

C18_Witness ==
    /\ RunReturned
    /\ returned = "success"
    /\ ai_reply = "json"
    /\ Len(cuts) >= 2
    /\ plan_points # [k \in 1..n_cuts |-> (k - 1) * target_length]

\* iteration j of the loop has a start point and a window of at least 1 s
Eligible(j) ==
    /\ j <= Len(plan_points)
    /\ ~too_short(plan_points[j], end_time_of(plan_points[j]))

\* the loop of create_cuts is running or has run to its end
LoopEntered == Planned /\ pc # "hung"

\* C19: an error in one iteration removes only that iteration's clip.  The
\* ids worked on so far are exactly the iterations so far that have a start
\* point and a window of at least 1 s, whatever failed before them, each
\* with its planned window; the emitted clips are those of them that did
\* not fail, in order; and the loop ends only after the last iteration.
C19_ErrorIsolation ==
    LoopEntered =>
        /\ {handed[k].id : k \in 1..Len(handed)} = {j \in 1..idx : Eligible(j)}
        /\ \A k \in 1..Len(handed) :
              /\ handed[k].start_time = plan_points[handed[k].id]
              /\ handed[k].end_time = end_time_of(handed[k].start_time)
        /\ \A k \in 1..Len(cuts) : \E h \in 1..Len(handed) : handed[h] = cuts[k]
        /\ \A k \in 1..(Len(cuts) - 1) : cuts[k].id < cuts[k + 1].id
        /\ Len(cuts) + failures = Len(handed)
        /\ pc # "cutting" => idx = n_cuts

C19_Witness ==
    /\ Finished
    /\ \E h \in 1..Len(handed) :
          /\ \A k \in 1..Len(cuts) : cuts[k] # handed[h]
          /\ \E k \in 1..Len(cuts) : cuts[k].id > handed[h].id

----------------------------------------------------------------------------
(* SpecSub: create_subtitles on every shape of transcription, for a clip   *)
(* whose file was probed at cut_duration.                                  *)

\* cut ids 1 .. MaxCutId are explored
MaxCutId == 2

TextHello == <<"O", "l", "a", " ", "m", "u", "n", "d", "o", ".", " ", "T", "u", "d", "o", " ", "b", "e", "m", "?">>
TextQuotes == <<"\"", "'">>
TextCommas == <<"u", "m", ",", " ", "d", "o", "i", "s">>
TextLong == <<"u", "m", " ", "d", "o", "i", "s", " ", "t", "r", "e", "s", " ", "q", "u", "a", "t", "r", "o", " ", "c", "i", "n", "c", "o", " ", "s", "e", "i", "s", " ", "s", "e", "t", "e", " ", "o", "i", "t", "o", " ", "n", "o", "v", "e", " ", "d", "e", "z", " ", "o", "n", "z", "e", " ", "d", "o", "z", "e">>

\* five sentences
TextFive == <<"a", ".", " ", "b", ".", " ", "c", ".", " ", "d", ".", " ", "e", ".">>

PlainTexts == {<< >>, <<" ", " ">>, TextHello, TextQuotes, TextCommas, TextLong, TextFive}

\* segments in source time, for a clip that starts at 10 s
SegmentsSpoken ==
    <<[start |-> 10500, end |-> 12000, text |-> <<" ", "o", "l", "a", " ", "m", "u", "n", "d", "o">>],
      [start |-> 12000, end |-> 14000, text |-> <<"t", "u", "d", "o", " ", "b", "e", "m", " ", "c", "o", "m", " ", "v", "o", "c", "e", " ", "h", "o", "j", "e", " ", "p", "e", "s", "s", "o", "a", "l">>]>>
\* a segment before the clip and a segment of quotes only
SegmentsOutside ==
    <<[start |-> 2000, end |-> 5000, text |-> <<"a", "n", "t", "e", "s">>],
      [start |-> 11000, end |-> 12000, text |-> <<"\"", "'">>]>>
SegmentsBlank == <<[start |-> 0, end |-> 1000, text |-> <<" ", " ">>]>>

Dict(has_text, text, has_segments, segments) ==
    [kind |-> "dict", has_text |-> has_text, text |-> text,
     has_segments |-> has_segments, segments |-> segments]

Transcriptions ==
    {[kind |-> "none", has_text |-> FALSE, text |-> << >>,
      has_segments |-> FALSE, segments |-> << >>]}
    \cup {[kind |-> "str", has_text |-> FALSE, text |-> t,
           has_segments |-> FALSE, segments |-> << >>] : t \in PlainTexts}
    \cup {Dict(TRUE, t, TRUE, sg) :
            t \in {<< >>, TextHello},
            sg \in {<< >>, SegmentsSpoken, SegmentsOutside, SegmentsBlank}}
    \cup {Dict(TRUE, TextHello, FALSE, << >>), Dict(FALSE, << >>, TRUE, SegmentsSpoken)}

\* clip lengths as probed: 0.5 s, 3 s, 30 s
ClipLengths == {500, Sec(3), Sec(30)}

InitSub ==
    /\ NoGen
    /\ NoFmt
    /\ NoProc
    /\ rng = 0
    /\ src_duration \in {Sec(20), Sec(100)}
    /\ target_length = 0 /\ self_processing_count = 0
    /\ pc = "none" /\ n_cuts = 0 /\ plan_points = << >> /\ idx = 0
    /\ self_cut_start_times \in {{}, {<<1, 0>>}, {<<1, Sec(10)>>}}
    /\ handed = << >> /\ cuts = << >> /\ failures = 0
    /\ sub_in \in [transcription : Transcriptions, cut_id : 1..MaxCutId,
                   cut_duration : ClipLengths]
    /\ sub_out = NoSubOut

\* create_subtitles(transcription_data, cut_id)
CreateSubtitles ==
    /\ sub_in # NoSubIn
    /\ pc = "none"
    /\ LET r == create_subtitles(sub_in.transcription, sub_in.cut_id, sub_in.cut_duration,
                                 self_cut_start_times, src_duration)
       IN  /\ sub_out' = [raised |-> r.raised, content |-> r.content]
           /\ self_cut_start_times' = r.times
    /\ pc' = "written"
    /\ UNCHANGED <<rng, genvars, sidevars, procvars, sub_in, src_duration, target_length,
                   self_processing_count, n_cuts, plan_points, idx, handed, cuts, failures>>

NextSub == CreateSubtitles

SpecSub == InitSub /\ [][NextSub]_vars

Written == pc = "written"

content_lines == SplitOn(sub_out.content, "\n")

IsDigit(c) == \E d \in 1..Len(Digits) : Digits[d] = c

\* line k is a cue number and line k + 1 its time range
CueAt(lines, k) ==
    /\ k + 1 <= Len(lines)
    /\ lines[k] # << >>
    /\ \A j \in 1..Len(lines[k]) : IsDigit(lines[k][j])
    /\ Contains(lines[k + 1], Arrow)

CueCount(lines) == Cardinality({k \in 1..Len(lines) : CueAt(lines, k)})

\* C9: for every shape of transcription and every clip length the content
\* written is non-empty and holds at least one cue block with a '-->' range.
C9_ContentHasCue ==
    Written =>
        /\ ~sub_out.raised
        /\ Strip(sub_out.content) # << >>
        /\ CueCount(content_lines) >= 1

\* C9 witness: a transcription whose segments are all filtered out, for which
\* the placeholder cue was written
C9_Witness ==
    /\ Written
    /\ sub_in.transcription.kind = "dict"
    /\ sub_in.transcription.segments # << >>
    /\ Contains(sub_out.content, TxtEmbedded)

EmptyTranscription ==
    /\ sub_in.transcription.kind = "dict"
    /\ sub_in.transcription.has_text /\ sub_in.transcription.text = << >>
    /\ sub_in.transcription.has_segments /\ sub_in.transcription.segments = << >>

\* C10 (as claimed): empty segments and empty text give exactly one cue over
\* [0, clip length] whose text is a placeholder, not an empty text.
C10_PlaceholderCue ==
    (Written /\ EmptyTranscription) =>
        /\ CueCount(content_lines) = 1
        /\ content_lines[1] = <<"1">>
        /\ content_lines[2] = ZeroTime \o Arrow \o format_srt_time(sub_in.cut_duration)
        /\ Strip(content_lines[3]) # << >>

AsPlainText(text) ==
    [kind |-> "str", has_text |-> FALSE, text |-> text,
     has_segments |-> FALSE, segments |-> << >>]

\* C11 (as claimed): a structured transcription with no segments and a
\* non-empty text gives the cues of that text taken as plain text: one cue
\* per sentence, timed in equal shares from 0 and line-wrapped.
C11_EmptySegmentsAsPlainText ==
    (/\ Written
     /\ sub_in.transcription.kind = "dict"
     /\ sub_in.transcription.has_text /\ sub_in.transcription.has_segments
     /\ sub_in.transcription.segments = << >>
     /\ Strip(sub_in.transcription.text) # << >>)
    => sub_out.content =
          create_subtitles(AsPlainText(sub_in.transcription.text), sub_in.cut_id,
                           sub_in.cut_duration, {}, src_duration).content

DigitValue(c) == (CHOOSE d \in 1..Len(Digits) : Digits[d] = c) - 1

\* the milliseconds written as HH:MM:SS,mmm
TimeValue(str) ==
    ((DigitValue(str[1]) * 10 + DigitValue(str[2])) * 60
      + DigitValue(str[4]) * 10 + DigitValue(str[5])) * 60000
    + (DigitValue(str[7]) * 10 + DigitValue(str[8])) * 1000
    + DigitValue(str[10]) * 100 + DigitValue(str[11]) * 10 + DigitValue(str[12])

\* the time ranges of the cues of the content, in order
CueRanges(lines) ==
    LET at == {k \in 1..Len(lines) : CueAt(lines, k)}
    IN  {[start |-> TimeValue(SubSeq(lines[k + 1], 1, 12)),
          end   |-> TimeValue(SubSeq(lines[k + 1], 18, 29))] : k \in at}

\* C12 (as claimed): every cue written, from segments or from sentences, has
\* 0 <= start <= end <= clip length.
C12_CueRangesWithinClip ==
    Written =>
        \A cue \in CueRanges(content_lines) :
            /\ 0 <= cue.start
            /\ cue.start <= cue.end
            /\ cue.end <= sub_in.cut_duration

----------------------------------------------------------------------------
(* SpecFmt: format_srt_time on a time given in whole milliseconds.         *)

\* times 0 .. MaxMillis ms are explored, and some longer ones
MaxMillis == 1200

FmtTimes == 0..MaxMillis \cup {59999, 3599999, Sec(3600), Sec(3661) + 234, 86399999}

InitFmt ==
    /\ NoGen
    /\ NoRun
    /\ NoSub
    /\ NoProc
    /\ rng = 0
    /\ fmt_in \in FmtTimes
    /\ fmt_out = << >>
    /\ NoTxt
    /\ NoStore
    /\ NoTrip
    /\ NoProbe

\* format_srt_time(fmt_in / 1000)
FormatTime ==
    /\ fmt_in # -1
    /\ fmt_out = << >>
    /\ fmt_out' = format_srt_time(fmt_in)
    /\ UNCHANGED <<rng, genvars, runvars, subvars, procvars, fmt_in, txtvars, storevars, tripvars, probe>>

NextFmt == FormatTime

SpecFmt == InitFmt /\ [][NextFmt]_vars

Formatted == fmt_out # << >>

\* C20 (as claimed): the fields of format_srt_time(t ms) are t div 3600000,
\* (t div 60000) mod 60, (t div 1000) mod 60 and t mod 1000, so they
\* recombine to t; 0 gives 00:00:00,000 and 3661.234 s gives 01:01:01,234.
C20_FieldsRecombine ==
    Formatted =>
        /\ Len(fmt_out) = 12
        /\ fmt_out[3] = ":" /\ fmt_out[6] = ":" /\ fmt_out[9] = ","
        /\ TimeValue(fmt_out) = fmt_in
        /\ fmt_in = 0 => fmt_out = ZeroTime
        /\ fmt_in = Sec(3661) + 234
              => fmt_out = <<"0", "1", ":", "0", "1", ":", "0", "1", ",", "2", "3", "4">>

(***************************************************************************)
(* SpecRuns: the same source file submitted to the upload handler of       *)
(* src/app.py several times in a row, each request running process_video   *)
(* to its return.  The counter file lives in the output folder the         *)
(* processor is given, so counters[f] is the count stored in folder f.     *)
(***************************************************************************)

\* the duration field of the upload form (s)
FormDurations == {15, 30, 60, 200}

\* if duration not in [15, 30, 60]: duration = 30
validated_duration(duration) == IF duration \in {15, 30, 60} THEN duration ELSE 30

\* the files submitted (ms)
UploadedSources == {SubSecond, Sec(12), Sec(50), Sec(100)}

\* the server is up, nothing was submitted yet
InitRuns ==
    /\ NoGen
    /\ NoSub
    /\ NoFmt
    /\ NoProc
    /\ rng = 0
    /\ src_duration \in UploadedSources
    /\ target_length = Sec(30)
    /\ self_processing_count = 0
    /\ pc = "idle"
    /\ n_cuts = 0 /\ plan_points = << >> /\ idx = 0
    /\ self_cut_start_times = {} /\ handed = << >> /\ cuts = << >> /\ failures = 0

\* handle_file_upload up to VideoProcessor(video_path, project_folder, ...):
\* a new project folder named by a fresh uuid, and a processor that reads
\* its count from the counter file of that folder
Upload ==
    /\ pc \in {"idle", "returned"}
    /\ folder < MaxRuns
    /\ \E duration \in FormDurations : target_length' = Sec(validated_duration(duration))
    /\ folder' = folder + 1
    /\ self_processing_count' = counters[folder + 1]
    /\ prev_upload' = IF returned = "success" /\ ~counter_error
                      THEN self_processing_count ELSE -1
    /\ returned' = "none" /\ error' = "none" /\ ai_reply' = "none"
    /\ segment_stt_failed' = FALSE /\ counter_error' = FALSE
    /\ pc' = "built"
    /\ n_cuts' = 0 /\ plan_points' = << >> /\ idx' = 0
    /\ self_cut_start_times' = {} /\ handed' = << >> /\ cuts' = << >> /\ failures' = 0
    /\ UNCHANGED <<rng, genvars, subvars, sidevars, src_duration, counters>>

NextRuns ==
    \/ Upload
    \/ Next

SpecRuns == InitRuns /\ [][NextRuns]_vars

\* C14: when an upload follows an upload of the same source that returned
\* success with processing count n and stored its count, the processor built
\* for it reads processing count n + 1.
C14_NextUploadReadsNextCount ==
    prev_upload >= 0 => self_processing_count = prev_upload + 1

(***************************************************************************)
(* SpecText: split_into_sentences on a text and create_multi_line_subtitle *)
(* on a list of words.                                                     *)
(***************************************************************************)

\* texts of 1 .. MaxTextLen characters are explored, and some longer ones
MaxTextLen == 4

\* word lists of 1 .. MaxWords words are explored
MaxWords == 4

TextAlphabet == {"a", " ", ".", ",", "?"}

RECURSIVE TextsOfLen(_)
TextsOfLen(n) ==
    IF n = 0 THEN {<< >>}
    ELSE {Append(t, c) : t \in TextsOfLen(n - 1), c \in TextAlphabet}

TextHelloWorld == <<"H", "e", "l", "l", "o", " ", "w", "o", "r", "l", "d", ".", " ", "H", "o", "w", " ", "a", "r", "e", " ", "y", "o", "u", "?">>
TextWait == <<"W", "a", "i", "t", ".", ".", ".", " ", "w", "h", "a", "t">>
TextEleven == <<"a", " ", "a", " ", "a", " ", "a", " ", "a", " ", "a", " ", "a", " ", "a", " ", "a", " ", "a", " ", "a">>
TextThirty == <<"a", " ", "a", " ", "a", " ", "a", " ", "a", " ", "a", " ", "a", " ", "a", " ", "a", " ", "a", " ", "a", " ", "a", " ", "a", " ", "a", " ", "a", " ", "a", " ", "a", " ", "a", " ", "a", " ", "a", " ", "a", " ", "a", " ", "a", " ", "a", " ", "a", " ", "a", " ", "a", " ", "a", " ", "a", " ", "a">>

Texts ==
    UNION {TextsOfLen(n) : n \in 1..MaxTextLen}
        \cup {TextHelloWorld, TextWait, TextEleven, TextThirty}

\* the k-th word of a list is written with the k-th letter
WordLetters == <<"a", "b", "c", "d", "e", "f", "g", "h">>

\* word lengths, around the thresholds 20, 25 and 40
WordLens == {1, 4, 9, 18, 20, 21, 26, 41}

RECURSIVE LenLists(_)
LenLists(n) ==
    IF n = 0 THEN {<< >>}
    ELSE {Append(l, w) : l \in LenLists(n - 1), w \in WordLens}

WordsOf(lens) == [k \in 1..Len(lens) |-> [j \in 1..lens[k] |-> WordLetters[((k - 1) % 8) + 1]]]

\* nine words of five letters: three lines without re-flow
NineWords == [k \in 1..9 |-> [j \in 1..5 |-> WordLetters[((k - 1) % 8) + 1]]]

WordLists ==
    {WordsOf(lens) : lens \in UNION {LenLists(n) : n \in 1..MaxWords}} \cup {NineWords}

InitText ==
    /\ NoGen
    /\ NoRun
    /\ NoSub
    /\ NoProc
    /\ rng = 0
    /\ fmt_in = -1 /\ fmt_out = << >>
    /\ NoStore
    /\ NoTrip
    /\ NoProbe
    /\ \/ txt_call = "split_into_sentences" /\ txt_in \in Texts
       \/ txt_call = "create_multi_line_subtitle" /\ txt_in \in WordLists
    /\ txt_out = << >>
    /\ txt_done = FALSE

\* sentences = self.split_into_sentences(text)
SplitText ==
    /\ txt_call = "split_into_sentences"
    /\ ~txt_done
    /\ txt_out' = split_into_sentences(txt_in)
    /\ txt_done' = TRUE
    /\ UNCHANGED <<rng, genvars, runvars, subvars, procvars, fmtvars, storevars, tripvars, probe, txt_call,
                   txt_in>>

\* self.create_multi_line_subtitle(words)
LayOutLines ==
    /\ txt_call = "create_multi_line_subtitle"
    /\ ~txt_done
    /\ txt_out' = create_multi_line_subtitle(txt_in)
    /\ txt_done' = TRUE
    /\ UNCHANGED <<rng, genvars, runvars, subvars, procvars, fmtvars, storevars, tripvars, probe, txt_call,
                   txt_in>>

NextText ==
    \/ SplitText
    \/ LayOutLines

SpecText == InitText /\ [][NextText]_vars

SentencesSplit == txt_call = "split_into_sentences" /\ txt_done

\* C21: split_into_sentences on a non-empty text returns at least one
\* element and no element is the empty string.
C21_SentencesNonEmpty ==
    (SentencesSplit /\ txt_in # << >>) =>
        /\ Len(txt_out) >= 1
        /\ \A k \in 1..Len(txt_out) : txt_out[k] # << >>

\* the comma tier drops the empty part between two commas
C21_Witness ==
    /\ SentencesSplit
    /\ txt_in = <<"a", ",", ",", "a">>
    /\ txt_out = <<<<"a">>, <<"a">>>>

IsTerminator(c) == c \in {".", "!", "?"}

\* the result came from the terminator tier
TerminatorTier == SentencesSplit /\ Len(sentence_loop(txt_in)) >= 2

\* C22: in the terminator tier each of '.', '!', '?' and '...' is one
\* terminator that stays on the sentence it ends: "Hello world. How are
\* you?" gives the two sentences, "Wait... what" gives "Wait..." and "what",
\* and no element consists of terminator characters only.
C22_TerminatorsStayAttached ==
    /\ (SentencesSplit /\ txt_in = TextHelloWorld) =>
          txt_out = <<<<"H", "e", "l", "l", "o", " ", "w", "o", "r", "l", "d", ".">>, <<"H", "o", "w", " ", "a", "r", "e", " ", "y", "o", "u", "?">>>>
    /\ (SentencesSplit /\ txt_in = TextWait) =>
          txt_out = <<<<"W", "a", "i", "t", ".", ".", ".">>, <<"w", "h", "a", "t">>>>
    /\ TerminatorTier =>
          \A k \in 1..Len(txt_out) : \E j \in 1..Len(txt_out[k]) : ~IsTerminator(txt_out[k][j])

WordsLaidOut == txt_call = "create_multi_line_subtitle" /\ txt_done

\* the lines of a returned string: the parts between the markers \N
display_lines(str) ==
    LET parts == SplitOn(str, "\\")
    IN  [k \in 1..Len(parts) |-> IF k = 1 THEN parts[k] ELSE Tail(parts[k])]

Spaced(words) == Join(words, <<" ">>)

\* C23: for a non-empty word list whose joined length is L the result is
\* the text on 1 line when L <= 20, 2 lines split at word floor(n/2) when
\* 20 < L <= 40, and when L > 40 the 3 lines split at words floor(n/3) and
\* floor(2n/3) unless one of them is longer than 25 characters, in which
\* case it has between 1 and 3 lines.
C23_LineCountByLength ==
    (WordsLaidOut /\ txt_in # << >>) =>
        LET n     == Len(txt_in)
            L     == Len(Spaced(txt_in))
            lines == display_lines(txt_out)
            l1    == Spaced(SubSeq(txt_in, 1, n \div 3))
            l2    == Spaced(SubSeq(txt_in, (n \div 3) + 1, (2 * n) \div 3))
            l3    == Spaced(SubSeq(txt_in, ((2 * n) \div 3) + 1, n))
        IN  /\ L <= 20 => lines = <<Spaced(txt_in)>>
            /\ (20 < L /\ L <= 40) =>
                  lines = <<Spaced(SubSeq(txt_in, 1, n \div 2)),
                            Spaced(SubSeq(txt_in, (n \div 2) + 1, n))>>
            /\ (L > 40 /\ Len(l1) <= 25 /\ Len(l2) <= 25 /\ Len(l3) <= 25) =>
                  lines = <<l1, l2, l3>>
            /\ (L > 40 /\ (Len(l1) > 25 \/ Len(l2) > 25 \/ Len(l3) > 25)) =>
                  (1 <= Len(lines) /\ Len(lines) <= 3)

\* a text of exactly 20 characters stays on one line
C23_Witness ==
    /\ WordsLaidOut
    /\ txt_in = WordsOf(<<18, 1>>)
    /\ display_lines(txt_out) = <<Spaced(txt_in)>>

\* C24: when every word has at most 25 characters, no line of the result
\* is longer than 25 characters.
C24_LinesWithinBudget ==
    (WordsLaidOut /\ \A k \in 1..Len(txt_in) : Len(txt_in[k]) <= 25) =>
        \A k \in 1..Len(display_lines(txt_out)) : Len(display_lines(txt_out)[k]) <= 25

\* C29: for a non-empty list of non-empty words, the result with every
\* marker \N replaced by one space is the words joined by single spaces,
\* and no line is empty.
C29_BreaksOnlyBetweenWords ==
    (WordsLaidOut /\ txt_in # << >>) =>
        /\ Spaced(display_lines(txt_out)) = Spaced(txt_in)
        /\ \A k \in 1..Len(display_lines(txt_out)) : display_lines(txt_out)[k] # << >>

(***************************************************************************)
(* SpecStore: processors built by different workers on the same output     *)
(* folder, so on the same processing_counters.json.  A step is one access  *)
(* to the file; the steps of different workers interleave freely.  Every   *)
(* run returns success: _increment_processing_count catches its errors.    *)
(***************************************************************************)

\* the count a dict holds for a video: counters.get(video_id, 0)
count_in(dict, video) == dict[video]

\* counters[video_id] = counters.get(video_id, 0) + 1; json.dump(counters, f):
\* the file becomes the dict loaded earlier with this video's count one higher
stored_by(file, loaded, video) == [loaded EXCEPT ![video] = count_in(loaded, video) + 1]

InitStore ==
    /\ NoGen
    /\ NoRun
    /\ NoSub
    /\ NoProc
    /\ rng = 0
    /\ fmt_in = -1 /\ fmt_out = << >>
    /\ NoTxt
    /\ NoTrip
    /\ NoProbe
    /\ counter_file \in [Videos -> 0..MaxCount]
    /\ file_init = counter_file
    /\ file_truncated = FALSE
    /\ worker_pc = [k \in Workers |-> "idle"]
    /\ worker_video \in [Workers -> Videos]
    /\ worker_count = [k \in Workers |-> 0]
    /\ loaded_counters = [k \in Workers |-> [v \in Videos |-> 0]]

StoreStep(k, to) ==
    /\ worker_pc' = [worker_pc EXCEPT ![k] = to]
    /\ UNCHANGED <<rng, genvars, runvars, subvars, procvars, fmtvars, txtvars, tripvars, probe,
                   file_init, worker_video>>

\* VideoProcessor(...): self.processing_count = self._get_processing_count();
\* a file that cannot be parsed gives 0
BuildProcessor(k) ==
    /\ worker_pc[k] = "idle"
    /\ worker_count' = [worker_count EXCEPT ![k] =
                            IF file_truncated THEN 0
                            ELSE count_in(counter_file, worker_video[k])]
    /\ StoreStep(k, "running")
    /\ UNCHANGED <<counter_file, file_truncated, loaded_counters>>

\* _increment_processing_count: counters = json.load(f)
LoadCounters(k) ==
    /\ worker_pc[k] = "running"
    /\ ~file_truncated
    /\ loaded_counters' = [loaded_counters EXCEPT ![k] = counter_file]
    /\ StoreStep(k, "loaded")
    /\ UNCHANGED <<counter_file, file_truncated, worker_count>>

\* json.load raises on the empty file: the except clause, nothing is written
LoadCountersFails(k) ==
    /\ worker_pc[k] = "running"
    /\ file_truncated
    /\ StoreStep(k, "returned")
    /\ UNCHANGED <<counter_file, file_truncated, worker_count, loaded_counters>>

\* with open(counter_file, 'w', ...) as f: the file is emptied
OpenForWriting(k) ==
    /\ worker_pc[k] = "loaded"
    /\ file_truncated' = TRUE
    /\ StoreStep(k, "writing")
    /\ UNCHANGED <<counter_file, worker_count, loaded_counters>>

\* json.dump(counters, f, ...); process_video returns success
DumpCounters(k) ==
    /\ worker_pc[k] = "writing"
    /\ counter_file' = stored_by(counter_file, loaded_counters[k], worker_video[k])
    /\ file_truncated' = (\E other \in Workers \ {k} : worker_pc[other] = "writing")
    /\ StoreStep(k, "returned")
    /\ UNCHANGED <<worker_count, loaded_counters>>

NextStore ==
    \E k \in Workers :
        \/ BuildProcessor(k)
        \/ LoadCounters(k)
        \/ LoadCountersFails(k)
        \/ OpenForWriting(k)
        \/ DumpCounters(k)

SpecStore == InitStore /\ [][NextStore]_vars

AllReturned == \A k \in Workers : worker_pc[k] = "returned"

RunsOf(video) == Cardinality({k \in Workers : worker_video[k] = video})

\* C25: when all the runs have returned, the stored count of each video is
\* its count before the runs plus the number of runs of that video (plus 2
\* for two runs of the same video), and no write lowers the stored count of
\* any video.
C25_NoLostUpdate ==
    /\ [](AllReturned => \A v \in Videos : counter_file[v] = file_init[v] + RunsOf(v))
    /\ [][\A v \in Videos : counter_file'[v] >= counter_file[v]]_vars

(***************************************************************************)
(* Termination of generate_varied_start_points, under SpecGen.             *)
(***************************************************************************)

\* the call never returns
GenHung == gen_in # NoCall /\ gen_out.hung

\* when the model's backfill loop does not end, no candidate can ever be
\* accepted: the loop of the program does not end either
HangIsJam ==
    GenHung => ~has_admissible(gen_out.points, gen_in.total - gen_in.cut, gen_in.cut)

\* C26: generate_varied_start_points returns for every total duration > 0,
\* cut duration > 0 and number of cuts >= 1.
C26_GeneratorTerminates ==
    gen_in # NoCall => ~gen_out.hung

(***************************************************************************)
(* SpecTrip: one iteration of the loop of create_cuts from the stored      *)
(* start time to the written subtitles, for a clip cut at clip_start whose *)
(* extract the speech-to-text engine segmented in clip-local time.         *)
(***************************************************************************)

\* local times 0, LocalStep, .. up to MaxLocalSteps * LocalStep ms are explored
MaxLocalSteps == 150
LocalStep == 20

\* start times of the clip in the source (ms), as planned for long sources
ClipStarts == {0, Sec(496), Sec(1128), 1090100}

TxtWord == <<"o", "l", "a">>

\* one segment of 1.5 s, one that runs past the end of a 30 s clip, and the
\* extract without speech
LocalSegmentLists ==
    {<<[start |-> k * LocalStep, end |-> k * LocalStep + 1500, text |-> TxtWord]>>
        : k \in 0..MaxLocalSteps}
    \cup {<<[start |-> 29020, end |-> 31000, text |-> TxtWord]>>, << >>}

TxtSegmentOf == <<"T", "r", "a", "n", "s", "c", "r", "i", "c", "a", "o", " ", "d", "o", " ", "s", "e", "g", "m", "e", "n", "t", "o", " ">>

\* str(x) of a float of whole milliseconds: 496.0, 1090.1, 0.02
FloatStr(t) ==
    LET m == t % 1000
        frac == IF m = 0 THEN <<"0">>
                ELSE IF m % 100 = 0 THEN IntStr(m \div 100)
                ELSE IF m % 10 = 0 THEN PadLeft(IntStr(m \div 10), 2)
                ELSE PadLeft(IntStr(m), 3)
    IN  IntStr(t \div 1000) \o <<".">> \o frac

\* f"Transcrição do segmento {start_time}s - {end_time}s"
segment_placeholder(start_time, end_time) ==
    Dict(TRUE, TxtSegmentOf \o FloatStr(start_time) \o <<"s", " ", "-", " ">>
                 \o FloatStr(end_time) \o <<"s">>, TRUE, << >>)

\* transcribe_segment: the text of the extract, and its segments moved by
\* start_time; the placeholder when the extract has no text
transcribe_segment(segments, start_time, end_time) ==
    LET text == Strip(Flatten([k \in 1..Len(segments) |-> segments[k].text]))
    IN  IF text = << >> THEN segment_placeholder(start_time, end_time)
        ELSE Dict(TRUE, text, TRUE,
                  [k \in 1..Len(segments) |->
                      [start |-> segments[k].start + start_time,
                       end   |-> segments[k].end + start_time,
                       text  |-> Strip(segments[k].text)]])

InitTrip ==
    /\ NoGen
    /\ NoProc
    /\ rng = 0
    /\ fmt_in = -1 /\ fmt_out = << >>
    /\ NoTxt
    /\ NoStore
    /\ src_duration = Sec(2000)
    /\ target_length = Sec(30)
    /\ self_processing_count = 0
    /\ pc = "clip"
    /\ n_cuts = 0 /\ plan_points = << >>
    /\ idx \in 0..(MaxCutId - 1)
    /\ self_cut_start_times \in {{}, {<<1, 0>>}}
    /\ handed = << >> /\ cuts = << >> /\ failures = 0
    /\ sub_in = NoSubIn
    /\ sub_out = NoSubOut
    /\ NoProbe
    /\ clip_start \in ClipStarts
    /\ local_segments \in LocalSegmentLists

TripStep(to) ==
    /\ pc' = to
    /\ UNCHANGED <<rng, genvars, procvars, fmtvars, txtvars, storevars, tripvars, probe, src_duration,
                   target_length, self_processing_count, n_cuts, plan_points, idx, handed, cuts,
                   failures>>

\* self._cut_start_times[cut_id] = start_time
StoreStartTime ==
    /\ pc = "clip"
    /\ self_cut_start_times' = StoreStart(self_cut_start_times, cut_id_of(idx, cuts), clip_start)
    /\ TripStep("stored")
    /\ UNCHANGED subvars

\* transcription_data = self.transcribe_segment(start_time, end_time)
TranscribeSegment ==
    /\ pc = "stored"
    /\ sub_in' = [transcription |-> transcribe_segment(local_segments, clip_start,
                                                      clip_start + target_length),
                  cut_id |-> cut_id_of(idx, cuts),
                  cut_duration |-> target_length]
    /\ TripStep("transcribed")
    /\ UNCHANGED <<sub_out, self_cut_start_times>>

\* srt_path = self.create_subtitles(transcription_data, cut_id)
WriteSubtitles ==
    /\ pc = "transcribed"
    /\ LET r == create_subtitles(sub_in.transcription, sub_in.cut_id, sub_in.cut_duration,
                                 self_cut_start_times, src_duration)
       IN  /\ sub_out' = [raised |-> r.raised, content |-> r.content]
           /\ self_cut_start_times' = r.times
    /\ TripStep("written")
    /\ UNCHANGED sub_in

NextTrip ==
    \/ StoreStartTime
    \/ TranscribeSegment
    \/ WriteSubtitles

SpecTrip == InitTrip /\ [][NextTrip]_vars

\* the time range lines of the cues written
TimeLines(lines) == {lines[k + 1] : k \in {j \in 1..Len(lines) : CueAt(lines, j)}}

\* C27: the start time create_subtitles looks up for the clip is the start
\* time transcribe_segment added, never the estimate from the cut id, and
\* each cue's times are the local times of its segment, clamped to the clip,
\* as format_srt_time writes them.
C27_OffsetRoundTrip ==
    Written =>
        /\ <<sub_in.cut_id, clip_start>> \in self_cut_start_times
        /\ get_cut_start_time(self_cut_start_times, sub_in.cut_id, src_duration).value
              = clip_start
        /\ local_segments # << >> =>
           TimeLines(content_lines) =
              {format_srt_time(Max(0, local_segments[k].start)) \o Arrow
                 \o format_srt_time(Min(local_segments[k].end, sub_in.cut_duration))
                 : k \in 1..Len(local_segments)}

\* the two offsets agree and the estimate from the cut id is not used
C27_SameOffset ==
    Written =>
        /\ <<sub_in.cut_id, clip_start>> \in self_cut_start_times
        /\ get_cut_start_time(self_cut_start_times, sub_in.cut_id, src_duration).value
              = clip_start

----------------------------------------------------------------------------
(* The lengths of the clips of one plan, under Spec.                       *)

\* the emitted clips shorter than the target length
ShortClips == {k \in 1..Len(cuts) : cuts[k].end_time - cuts[k].start_time < target_length}

\* C28: in the list create_cuts emits, a clip is shorter than the target
\* length only if it ends at the end of the source, and at most one clip of
\* the list is shorter than the target length.
C28_ShortOnlyAtEnd ==
    /\ \A k \in ShortClips : cuts[k].end_time = src_duration
    /\ Cardinality(ShortClips) <= 1

\* C28 witness: a finished run that emitted full clips and, last, one clip
\* shorter than the target length that ends with the source
C28_Witness ==
    /\ Finished
    /\ Len(cuts) >= 3
    /\ ShortClips = {Len(cuts)}
    /\ cuts[Len(cuts)].end_time = src_duration
    /\ cuts[Len(cuts)].end_time - cuts[Len(cuts)].start_time >= Sec(1)

----------------------------------------------------------------------------
(* SpecProbe: create_subtitles with the probe of the clip file as one of   *)
(* its steps: the file is probed, is missing, or the probe fails.          *)

ProbeOutcomes == {"ok", "missing", "fails"}

\* the except clause of create_subtitles: one cue over format_srt_time(cut_duration)
\* with str(transcription_data); cut_duration is a local variable that is
\* bound only once the probe has returned
except_clause(bound, cut_duration, transcription_data, times) ==
    IF bound
    THEN [raised |-> FALSE, times |-> times,
          content |-> cue_block(1, ZeroTime, format_srt_time(cut_duration),
                                StrOf(transcription_data))]
    ELSE [raised |-> TRUE, times |-> times, content |-> << >>]

\* create_subtitles from its first line: subprocess.run(..., check=True) and
\* float(info['format']['duration']) when the clip file exists, 30 s when not
create_subtitles_probing(transcription_data, cut_id, probed, cut_duration, times, total) ==
    IF probed = "fails"
    THEN except_clause(FALSE, 0, transcription_data, times)
    ELSE IF probed = "missing"
    THEN create_subtitles(transcription_data, cut_id, Sec(30), times, total)
    ELSE create_subtitles(transcription_data, cut_id, cut_duration, times, total)

InitProbe ==
    /\ NoGen
    /\ NoProc
    /\ rng = 0
    /\ fmt_in = -1 /\ fmt_out = << >>
    /\ NoTxt
    /\ NoStore
    /\ NoTrip
    /\ src_duration = Sec(100)
    /\ target_length = 0 /\ self_processing_count = 0
    /\ pc = "none" /\ n_cuts = 0 /\ plan_points = << >> /\ idx = 0
    /\ self_cut_start_times \in {{}, {<<1, Sec(10)>>}}
    /\ handed = << >> /\ cuts = << >> /\ failures = 0
    /\ sub_in \in [transcription : Transcriptions, cut_id : 1..MaxCutId,
                   cut_duration : ClipLengths]
    /\ sub_out = NoSubOut
    /\ probe \in ProbeOutcomes

\* srt_path = self.create_subtitles(transcription_data, cut_id)
CreateSubtitlesProbing ==
    /\ pc = "none"
    /\ probe \in ProbeOutcomes
    /\ LET r == create_subtitles_probing(sub_in.transcription, sub_in.cut_id, probe,
                                         sub_in.cut_duration, self_cut_start_times,
                                         src_duration)
       IN  /\ sub_out' = [raised |-> r.raised, content |-> r.content]
           /\ self_cut_start_times' = r.times
           /\ pc' = IF r.raised THEN "raised" ELSE "written"
    /\ UNCHANGED <<rng, genvars, procvars, fmtvars, txtvars, storevars, tripvars, probe, sub_in,
                   src_duration, target_length, self_processing_count, n_cuts, plan_points, idx,
                   handed, cuts, failures>>

NextProbe == CreateSubtitlesProbing

SpecProbe == InitProbe /\ [][NextProbe]_vars

\* the call of create_subtitles is over
SubtitlesCalled == pc \in {"written", "raised"}

\* C30: whatever the probe of the clip file does, create_subtitles returns
\* instead of raising and the subtitles it wrote hold at least one cue.
C30_ProbeFailureStillWrites ==
    SubtitlesCalled =>
        /\ ~sub_out.raised
        /\ Strip(sub_out.content) # << >>
        /\ CueCount(content_lines) >= 1

\* with the probe done or the clip file missing, a cue is written
C30_WrittenUnlessProbeFails ==
    (SubtitlesCalled /\ probe # "fails") =>
        /\ ~sub_out.raised
        /\ CueCount(content_lines) >= 1

====
